---- MODULE Spec2Model ----
(***************************************************************************)
(* A model of the WeeHours MUD gateway's message parser                    *)
(* (src/src/parser/message-parser.ts) and of the connection layer that     *)
(* feeds it (user-mud-connection.ts, raw-telnet-client.ts).                *)
(*                                                                         *)
(* Text is modelled by TLA+ strings, one character per JavaScript UTF-16   *)
(* code unit.  The characters that a TLA+ string literal cannot hold are   *)
(* written with stand-ins that occur nowhere else in the inputs:           *)
(*     "@"  U+00FF  (IAC)        "^"  U+00FB  (WILL)                       *)
(*     "~"  U+00FD  (DO)         "|"  U+0001  (option ECHO)                *)
(***************************************************************************)
EXTENDS Integers, Sequences, FiniteSets, TLC

VARIABLES
    unit,       \* the RawUnit (id, content, timestamp) under test
    context,    \* context[p]: the MessageParserContext of parser instance p
    returned,   \* returned[p]: the list the last parseMessage call on p returned
    calls,      \* calls[p]: the arguments of the parseMessage calls made on p, in order
    socket,         \* the connection's net.Socket: "new", "open", "errored", "closed"
    state,          \* UserMudConnection.state
    loginState,     \* UserMudConnection.loginState
    messageCounter, \* UserMudConnection.messageCounter
    handlers,       \* handlers[k]: the 'data' handler started for the k-th chunk
    parsed,         \* the chunks given to parseMessage, by arrival number, in call order
    written,        \* what was written to the socket, in order
    delivered,      \* what was passed to onMessage as incoming text, in order
    activeConnections, \* UserSessionManager.activeConnections at the session id: 0 or a connection
    connections,       \* connections[c]: the c-th UserMudConnection the manager constructed
    requests           \* requests[r]: the r-th connectMudForUser / disconnectMud call

parserVars == <<unit, context, returned, calls>>
connVars == <<socket, state, loginState, messageCounter, handlers, parsed,
              written, delivered>>
sessionVars == <<activeConnections, connections, requests>>
vars == <<unit, context, returned, calls, socket, state, loginState,
          messageCounter, handlers, parsed, written, delivered,
          activeConnections, connections, requests>>

----------------------------------------------------------------------------
(* Strings *)

Min(S) == CHOOSE x \in S : \A y \in S : x <= y
Max(S) == CHOOSE x \in S : \A y \in S : x >= y

\* s.substring(i-1, j), clamped like JavaScript does
Slice(s, i, j) ==
    LET a == IF i < 1 THEN 1 ELSE i
        b == IF j > Len(s) THEN Len(s) ELSE j
    IN IF a > b THEN "" ELSE SubSeq(s, a, b)

\* s.charAt(i-1): "" outside the string
CharAt(s, i) == IF i < 1 \/ i > Len(s) THEN "" ELSE SubSeq(s, i, i)

\* the string has sub at position i
HasAt(s, sub, i) ==
    /\ i >= 1
    /\ i + Len(sub) - 1 <= Len(s)
    /\ SubSeq(s, i, i + Len(sub) - 1) = sub

\* String.prototype.includes
Includes(s, sub) == \E i \in 1..(Len(s) - Len(sub) + 1) : HasAt(s, sub, i)

\* String.prototype.startsWith
StartsWith(s, sub) == HasAt(s, sub, 1)

\* String.prototype.indexOf, 1-based; 0 when absent
IndexOf(s, sub) ==
    LET at == {i \in 1..(Len(s) - Len(sub) + 1) : HasAt(s, sub, i)}
    IN IF at = {} THEN 0 ELSE Min(at)

IAC  == "@"
WILL == "^"
DO   == "~"
ECHO == "|"

\* the characters the regex class [\xFB-\xFF] holds, among those of the alphabet
TelnetCommands == {WILL, DO, IAC}

\* the characters "." does not match
LineTerminators == {"\n", "\r"}

\* the characters \s matches and trim() strips
WhiteSpace == {" ", "\t", "\n", "\r", "\f"}

\* the characters \w matches
WordChars ==
    {"a", "b", "c", "d", "e", "f", "g", "h", "i", "j", "k", "l", "m",
     "n", "o", "p", "q", "r", "s", "t", "u", "v", "w", "x", "y", "z",
     "A", "B", "C", "D", "E", "F", "G", "H", "I", "J", "K", "L", "M",
     "N", "O", "P", "Q", "R", "S", "T", "U", "V", "W", "X", "Y", "Z",
     "0", "1", "2", "3", "4", "5", "6", "7", "8", "9", "_"}

\* String.prototype.trim
Trim(s) ==
    LET ink == {i \in 1..Len(s) : SubSeq(s, i, i) \notin WhiteSpace}
    IN IF ink = {} THEN "" ELSE SubSeq(s, Min(ink), Max(ink))

\* the length of the longest run of characters of class that starts at i
RunIn(s, i, class) ==
    LET stops == {j \in i..Len(s) : SubSeq(s, j, j) \notin class}
    IN IF i > Len(s) THEN 0
       ELSE IF stops = {} THEN Len(s) - i + 1
       ELSE Min(stops) - i

\* the length of the longest run of characters outside class that starts at i
RunOut(s, i, class) ==
    LET stops == {j \in i..Len(s) : SubSeq(s, j, j) \in class}
    IN IF i > Len(s) THEN 0
       ELSE IF stops = {} THEN Len(s) - i + 1
       ELSE Min(stops) - i

\* String.prototype.split with a one-character separator
RECURSIVE Split(_, _)
Split(s, sep) ==
    LET i == IndexOf(s, sep)
    IN IF i = 0 THEN <<s>>
       ELSE <<Slice(s, 1, i - 1)>> \o Split(Slice(s, i + 1, Len(s)), sep)

\* String.prototype.split(/\s+/)
RECURSIVE SplitSpaces(_)
SplitSpaces(s) ==
    LET gaps == {i \in 1..Len(s) : SubSeq(s, i, i) \in WhiteSpace}
    IN IF gaps = {} THEN <<s>>
       ELSE LET i == Min(gaps)
                n == RunIn(s, i, WhiteSpace)
            IN <<Slice(s, 1, i - 1)>> \o SplitSpaces(Slice(s, i + n, Len(s)))

\* Array.prototype.join
RECURSIVE Join(_, _)
Join(parts, sep) ==
    IF parts = <<>> THEN ""
    ELSE IF Len(parts) = 1 THEN parts[1]
    ELSE parts[1] \o sep \o Join(Tail(parts), sep)

\* parts.map(trim)
TrimAll(parts) == [i \in 1..Len(parts) |-> Trim(parts[i])]

\* parts.filter(l => l): the non-empty strings, in order
RECURSIVE NonEmpty(_)
NonEmpty(parts) ==
    IF parts = <<>> THEN <<>>
    ELSE IF parts[1] = "" THEN NonEmpty(Tail(parts))
    ELSE <<parts[1]>> \o NonEmpty(Tail(parts))

\* the record rec with the field name set to value
With(rec, name, value) ==
    [f \in DOMAIN rec \cup {name} |-> IF f = name THEN value ELSE rec[f]]

----------------------------------------------------------------------------
(* MessageParser.cleanContent *)

\* content.replace(/\xFF[\xFB-\xFF]./g, ''): the text from position i on, with
\* each match, found from left to right, removed
RECURSIVE StripTelnet(_, _)
StripTelnet(s, i) ==
    LET at == {j \in i..(Len(s) - 2) :
                  /\ SubSeq(s, j, j) = IAC
                  /\ SubSeq(s, j + 1, j + 1) \in TelnetCommands
                  /\ SubSeq(s, j + 2, j + 2) \notin LineTerminators}
    IN IF at = {} THEN Slice(s, i, Len(s))
       ELSE Slice(s, i, Min(at) - 1) \o StripTelnet(s, Min(at) + 3)

\* s.replace(/old/g, new) for a literal old: the text from position i on
RECURSIVE ReplaceAll(_, _, _, _)
ReplaceAll(s, old, new, i) ==
    LET at == {j \in i..(Len(s) - Len(old) + 1) : HasAt(s, old, j)}
    IN IF at = {} THEN Slice(s, i, Len(s))
       ELSE Slice(s, i, Min(at) - 1) \o new \o ReplaceAll(s, old, new, Min(at) + Len(old))

\* cleanContent without its last replace: a CR that stands alone is left
cleanContentCrLfOnly(content) ==
    ReplaceAll(StripTelnet(content, 1), "\r\n", "\n", 1)

cleanContent(content) ==
    LET cleaned == StripTelnet(content, 1)
    IN ReplaceAll(ReplaceAll(cleaned, "\r\n", "\n", 1), "\r", "\n", 1)

----------------------------------------------------------------------------
(* Pattern detection methods *)

Dashes74 == "--------------------------------------------------------------------------"

\* /You say in \w+:/ and /You tell \w+:/ : lead, one or more word characters, ":"
TestLeadWordColon(content, lead) ==
    \E i \in 1..Len(content) :
        /\ HasAt(content, lead, i)
        /\ LET n == RunIn(content, i + Len(lead), WordChars)
           IN n >= 1 /\ CharAt(content, i + Len(lead) + n) = ":"

\* /\w+ says in \w+:/
TestSaysIn(content) ==
    \E i \in 1..Len(content) :
        /\ SubSeq(content, i, i) \in WordChars
        /\ HasAt(content, " says in ", i + 1)
        /\ LET n == RunIn(content, i + 10, WordChars)
           IN n >= 1 /\ CharAt(content, i + 10 + n) = ":"

\* /\w+ tells you:/
TestTellsYou(content) ==
    \E i \in 1..Len(content) :
        /\ SubSeq(content, i, i) \in WordChars
        /\ HasAt(content, " tells you:", i + 1)

isLoginSuccess(content) ==
    \/ Includes(content, "[Awwaiid has entered the game.]")
    \/ Includes(content, "entered the game")

isRoomDescription(content) ==
    /\ Includes(content, "You are in")
    /\ (Includes(content, "obvious exits:") \/ Includes(content, "There are"))

isChatMessage(content) ==
    \/ TestLeadWordColon(content, "You say in ")
    \/ TestSaysIn(content)
    \/ TestTellsYou(content)
    \/ TestLeadWordColon(content, "You tell ")

isPlayerList(content) ==
    Includes(content, "WeeHours LP ::") /\ Includes(content, "players ::")

\* isPlayerAction with the regex tested on the content as it is, not trimmed
isPlayerActionUntrimmed(content) ==
    /\ StartsWith(content, "You ") /\ CharAt(content, 5) \in WordChars
    /\ ~Includes(content, "You say")
    /\ ~Includes(content, "You are")

\* /^You \w+/.test(content.trim()) && !includes('You say') && !includes('You are')
isPlayerAction(content) ==
    /\ LET t == Trim(content)
       IN StartsWith(t, "You ") /\ CharAt(t, 5) \in WordChars
    /\ ~Includes(content, "You say")
    /\ ~Includes(content, "You are")

isHelpText(content) ==
    \/ Includes(content, "Commands      :")
    \/ Includes(content, Dashes74)

\* isSystemResponse with includes('What?') in the place of trim() === 'What?'
isSystemResponseIncludes(content) ==
    \/ StartsWith(content, "Syntax:")
    \/ Includes(content, "What?")
    \/ Includes(content, "Sorry, no such help topic")
    \/ Includes(content, "Changed 'idle' to")

isSystemResponse(content) ==
    \/ StartsWith(content, "Syntax:")
    \/ Trim(content) = "What?"
    \/ Includes(content, "Sorry, no such help topic")
    \/ Includes(content, "Changed 'idle' to")

\* trim() never leaves a trailing space, so the second comparison is dead code
isCommandPrompt(content) ==
    Trim(content) = ">" \/ Trim(content) = "> "

isWelcomeScreen(content) ==
    \/ Includes(content, "WEEHOURS LPMUD")
    \/ Includes(content, "What is your name:")
    \/ Includes(content, "EEEEEEEEEEE")

isUrlSubmission(content) ==
    Includes(content, "URL added to http://weehours.net")

----------------------------------------------------------------------------
(* Regular-expression matches.  A match result is a sequence: <<>> for     *)
(* null, otherwise one record of the capture groups of the leftmost match. *)

\* content.match(/You say in (\w+): (.+)/)
MatchYouSay(content) ==
    LET lead == "You say in "
        Ok(i) ==
            /\ HasAt(content, lead, i)
            /\ LET n == RunIn(content, i + Len(lead), WordChars)
               IN /\ n >= 1
                  /\ HasAt(content, ": ", i + Len(lead) + n)
                  /\ RunOut(content, i + Len(lead) + n + 2, LineTerminators) >= 1
        at == {i \in 1..Len(content) : Ok(i)}
    IN IF at = {} THEN <<>>
       ELSE LET i == Min(at)
                w == i + Len(lead)
                n == RunIn(content, w, WordChars)
                m == RunOut(content, w + n + 2, LineTerminators)
            IN <<[g1 |-> Slice(content, w, w + n - 1),
                  g2 |-> Slice(content, w + n + 2, w + n + 1 + m)]>>

\* content.match(/(\w+) says in (\w+): (.+)/)
MatchOtherSay(content) ==
    LET mid == " says in "
        Ok(i) ==
            LET k == RunIn(content, i, WordChars)
            IN /\ k >= 1
               /\ HasAt(content, mid, i + k)
               /\ LET w == i + k + Len(mid)
                      n == RunIn(content, w, WordChars)
                  IN /\ n >= 1
                     /\ HasAt(content, ": ", w + n)
                     /\ RunOut(content, w + n + 2, LineTerminators) >= 1
        at == {i \in 1..Len(content) : Ok(i)}
    IN IF at = {} THEN <<>>
       ELSE LET i == Min(at)
                k == RunIn(content, i, WordChars)
                w == i + k + Len(mid)
                n == RunIn(content, w, WordChars)
                m == RunOut(content, w + n + 2, LineTerminators)
            IN <<[g1 |-> Slice(content, i, i + k - 1),
                  g2 |-> Slice(content, w, w + n - 1),
                  g3 |-> Slice(content, w + n + 2, w + n + 1 + m)]>>

\* content.match(/(\w+) tells you: (.+)/)
MatchTell(content) ==
    LET mid == " tells you: "
        Ok(i) ==
            LET k == RunIn(content, i, WordChars)
            IN /\ k >= 1
               /\ HasAt(content, mid, i + k)
               /\ RunOut(content, i + k + Len(mid), LineTerminators) >= 1
        at == {i \in 1..Len(content) : Ok(i)}
    IN IF at = {} THEN <<>>
       ELSE LET i == Min(at)
                k == RunIn(content, i, WordChars)
                w == i + k + Len(mid)
                m == RunOut(content, w, LineTerminators)
            IN <<[g1 |-> Slice(content, i, i + k - 1),
                  g2 |-> Slice(content, w, w + m - 1)]>>

\* line.match(/exits:\s*(.+)$/), for a line without line terminators
MatchExits(line) ==
    LET i == IndexOf(line, "exits:")
        j == i + 6
        n == RunIn(line, j, WhiteSpace)
    IN IF i = 0 THEN <<>>
       ELSE IF j + n <= Len(line) THEN <<[g1 |-> Slice(line, j + n, Len(line))]>>
       \* \s* gives its last character back to (.+)
       ELSE IF n >= 1 THEN <<[g1 |-> Slice(line, Len(line), Len(line))]>>
       ELSE <<>>

\* line.match(/^\(idle ([^)]+)\) (.+?)(\s+\([^)]+\))?\s*(.*)$/), for a line
\* without line terminators.  The lazy (.+?) stops after one character,
\* because everything that follows it can match the empty string.  A group 3
\* that took no part in the match is written "" (a group 3 that did is never
\* empty), which is what playerMatch[3] || '' makes of it.
MatchIdle(line) ==
    LET t == RunOut(line, 7, {")"})
        q == 7 + t + 2
        r == q + 1
        w == RunIn(line, r, WhiteSpace)
        u == RunOut(line, r + w + 1, {")"})
        titled == /\ w >= 1
                  /\ CharAt(line, r + w) = "("
                  /\ u >= 1
                  /\ CharAt(line, r + w + 1 + u) = ")"
        z == IF titled THEN r + w + 1 + u + 1 ELSE r
        v == RunIn(line, z, WhiteSpace)
    IN IF /\ HasAt(line, "(idle ", 1)
          /\ t >= 1
          /\ HasAt(line, ") ", 7 + t)
          /\ q <= Len(line)
       THEN <<[g1 |-> Slice(line, 7, 7 + t - 1),
               g2 |-> Slice(line, q, q),
               g3 |-> IF titled THEN Slice(line, r, z - 1) ELSE "",
               g4 |-> Slice(line, z + v, Len(line))]>>
       ELSE <<>>

----------------------------------------------------------------------------
(* Event creation methods *)

\* Event with the session id in the place of the unit's id
EventOfSession(type, data, id, timestamp) ==
    [session_id |-> 1, event_type |-> type, data |-> data,
     raw_message_ids |-> <<1>>, timestamp |-> timestamp]

Event(type, data, id, timestamp) ==
    [session_id |-> 1, event_type |-> type, data |-> data,
     raw_message_ids |-> <<id>>, timestamp |-> timestamp]

createLoginSuccessEvent(id, content, timestamp) ==
    Event("login_success",
          [message |-> Trim(content), player_name |-> "Awwaiid"],
          id, timestamp)

\* RoomLine with the exits pushed as split, without map(e => e.trim())
RoomLineNoTrim(acc, line) ==
    IF Includes(line, "obvious exits:") THEN
        LET exitMatch == MatchExits(line)
        IN [acc EXCEPT
               !.currentSection = "exits",
               !.exits = IF exitMatch # <<>>
                         THEN @ \o Split(exitMatch[1].g1, ",")
                         ELSE @]
    ELSE IF Includes(line, "There is a") \/ Includes(line, "There are") THEN
        [acc EXCEPT !.currentSection = "objects"]
    ELSE IF acc.currentSection = "description" /\ ~Includes(line, "You are in") THEN
        [acc EXCEPT !.description = Append(@, line)]
    ELSE IF acc.currentSection = "objects" THEN
        IF Includes(line, ".")
        THEN [acc EXCEPT !.objects = Append(@, line)]
        ELSE [acc EXCEPT !.npcs = Append(@, line)]
    ELSE acc

\* RoomLine with the description bucket open in every section
RoomLineAnySection(acc, line) ==
    IF Includes(line, "obvious exits:") THEN
        LET exitMatch == MatchExits(line)
        IN [acc EXCEPT
               !.currentSection = "exits",
               !.exits = IF exitMatch # <<>>
                         THEN @ \o TrimAll(Split(exitMatch[1].g1, ","))
                         ELSE @]
    ELSE IF Includes(line, "There is a") \/ Includes(line, "There are") THEN
        [acc EXCEPT !.currentSection = "objects"]
    ELSE IF ~Includes(line, "You are in") THEN
        [acc EXCEPT !.description = Append(@, line)]
    ELSE acc

\* the body of the loop over the lines: acc holds currentSection and the
\* four arrays
RoomLine(acc, line) ==
    IF Includes(line, "obvious exits:") THEN
        LET exitMatch == MatchExits(line)
        IN [acc EXCEPT
               !.currentSection = "exits",
               !.exits = IF exitMatch # <<>>
                         THEN @ \o TrimAll(Split(exitMatch[1].g1, ","))
                         ELSE @]
    ELSE IF Includes(line, "There is a") \/ Includes(line, "There are") THEN
        [acc EXCEPT !.currentSection = "objects"]
    ELSE IF acc.currentSection = "description" /\ ~Includes(line, "You are in") THEN
        [acc EXCEPT !.description = Append(@, line)]
    ELSE IF acc.currentSection = "objects" THEN
        IF Includes(line, ".")
        THEN [acc EXCEPT !.objects = Append(@, line)]
        ELSE [acc EXCEPT !.npcs = Append(@, line)]
    ELSE acc

RECURSIVE RoomLines(_, _)
RoomLines(acc, lines) ==
    IF lines = <<>> THEN acc
    ELSE RoomLines(RoomLine(acc, lines[1]), Tail(lines))

createRoomDescriptionEvent(id, content, timestamp) ==
    LET lines == NonEmpty(TrimAll(Split(content, "\n")))
        acc == RoomLines([currentSection |-> "description", description |-> <<>>,
                          exits |-> <<>>, objects |-> <<>>, npcs |-> <<>>],
                         lines)
    IN Event("room_description",
             [description |-> Join(acc.description, " "),
              exits |-> acc.exits,
              objects |-> acc.objects,
              npcs |-> acc.npcs,
              raw_content |-> content],
             id, timestamp)

\* createChatMessageEvent with otherSayMatch tried before youSayMatch
createChatMessageEventOtherFirst(id, content, timestamp) ==
    LET youSayMatch == MatchYouSay(content)
        otherSayMatch == MatchOtherSay(content)
        data ==
            IF otherSayMatch # <<>> THEN
                [speaker |-> otherSayMatch[1].g1,
                 message |-> otherSayMatch[1].g3,
                 language |-> otherSayMatch[1].g2,
                 chat_type |-> "say",
                 raw_content |-> Trim(content)]
            ELSE IF youSayMatch # <<>> THEN
                [speaker |-> "Awwaiid",
                 message |-> youSayMatch[1].g2,
                 language |-> youSayMatch[1].g1,
                 chat_type |-> "say",
                 raw_content |-> Trim(content)]
            ELSE [raw_content |-> Trim(content)]
    IN Event("chat_message", data, id, timestamp)

\* createChatMessageEvent with the four variables initialised to '' instead of
\* left undefined
createChatMessageEventDefaults(id, content, timestamp) ==
    LET youSayMatch == MatchYouSay(content)
        otherSayMatch == MatchOtherSay(content)
        tellMatch == MatchTell(content)
        data ==
            IF youSayMatch # <<>> THEN
                [speaker |-> "Awwaiid",
                 message |-> youSayMatch[1].g2,
                 language |-> youSayMatch[1].g1,
                 chat_type |-> "say",
                 raw_content |-> Trim(content)]
            ELSE IF otherSayMatch # <<>> THEN
                [speaker |-> otherSayMatch[1].g1,
                 message |-> otherSayMatch[1].g3,
                 language |-> otherSayMatch[1].g2,
                 chat_type |-> "say",
                 raw_content |-> Trim(content)]
            ELSE IF tellMatch # <<>> THEN
                [speaker |-> tellMatch[1].g1,
                 message |-> tellMatch[1].g2,
                 language |-> "common",
                 chat_type |-> "tell",
                 raw_content |-> Trim(content)]
            ELSE [speaker |-> "", message |-> "", language |-> "",
                  chat_type |-> "", raw_content |-> Trim(content)]
    IN Event("chat_message", data, id, timestamp)

\* speaker, message, language and chat_type stay undefined when none of the
\* three matches succeeds; an undefined field is an absent field of data
createChatMessageEvent(id, content, timestamp) ==
    LET youSayMatch == MatchYouSay(content)
        otherSayMatch == MatchOtherSay(content)
        tellMatch == MatchTell(content)
        raw == [raw_content |-> Trim(content)]
        data ==
            IF youSayMatch # <<>> THEN
                [speaker |-> "Awwaiid",
                 message |-> youSayMatch[1].g2,
                 language |-> youSayMatch[1].g1,
                 chat_type |-> "say",
                 raw_content |-> Trim(content)]
            ELSE IF otherSayMatch # <<>> THEN
                [speaker |-> otherSayMatch[1].g1,
                 message |-> otherSayMatch[1].g3,
                 language |-> otherSayMatch[1].g2,
                 chat_type |-> "say",
                 raw_content |-> Trim(content)]
            ELSE IF tellMatch # <<>> THEN
                [speaker |-> tellMatch[1].g1,
                 message |-> tellMatch[1].g2,
                 language |-> "common",
                 chat_type |-> "tell",
                 raw_content |-> Trim(content)]
            ELSE raw
    IN Event("chat_message", data, id, timestamp)

\* the body of the loop over the lines of a player list
PlayerLine(players, line) ==
    LET playerMatch == MatchIdle(line)
    IN IF playerMatch # <<>> THEN
           Append(players,
                  [name |-> Trim(playerMatch[1].g2),
                   idle_time |-> playerMatch[1].g1,
                   title |-> playerMatch[1].g3,
                   status |-> playerMatch[1].g4])
       ELSE IF /\ CharAt(line, 1) \in WordChars
               /\ ~Includes(line, "::")
               /\ ~Includes(line, "---")
       THEN LET parts == SplitSpaces(line)
            IN IF Len(parts) >= 2
               THEN Append(players,
                           [name |-> parts[1],
                            idle_time |-> "active",
                            title |-> Join(Tail(parts), " "),
                            status |-> ""])
               ELSE players
       ELSE players

RECURSIVE PlayerLines(_, _)
PlayerLines(players, lines) ==
    IF lines = <<>> THEN players
    ELSE PlayerLines(PlayerLine(players, lines[1]), Tail(lines))

createPlayerListEvent(id, content, timestamp) ==
    LET lines == Split(content, "\n")
        players == PlayerLines(<<>>, lines)
    IN Event("player_list",
             [players |-> players,
              total_players |-> Len(players),
              raw_content |-> content],
             id, timestamp)

createPlayerActionEvent(id, content, timestamp) ==
    Event("player_action",
          [action |-> Trim(content), player |-> "Awwaiid"],
          id, timestamp)

createHelpTextEvent(id, content, timestamp) ==
    Event("help_text",
          [content |-> Trim(content), formatted |-> TRUE],
          id, timestamp)

\* classifySystemResponse with the help phrase tested first
classifySystemResponseHelpFirst(content) ==
    IF Includes(content, "Sorry, no such help topic") THEN "help_not_found"
    ELSE IF StartsWith(content, "Syntax:") THEN "syntax_error"
    ELSE IF Trim(content) = "What?" THEN "unknown_command"
    ELSE IF Includes(content, "Changed 'idle' to") THEN "setting_changed"
    ELSE "general"

classifySystemResponse(content) ==
    IF StartsWith(content, "Syntax:") THEN "syntax_error"
    ELSE IF Trim(content) = "What?" THEN "unknown_command"
    ELSE IF Includes(content, "Sorry, no such help topic") THEN "help_not_found"
    ELSE IF Includes(content, "Changed 'idle' to") THEN "setting_changed"
    ELSE "general"

createSystemResponseEvent(id, content, timestamp) ==
    Event("system_response",
          [message |-> Trim(content),
           response_type |-> classifySystemResponse(content)],
          id, timestamp)

createCommandPromptEvent(id, content, timestamp) ==
    Event("command_prompt", [ready_for_input |-> TRUE], id, timestamp)

createWelcomeScreenEvent(id, content, timestamp) ==
    Event("welcome_screen",
          [content |-> content, ascii_art |-> TRUE],
          id, timestamp)

createUrlSubmissionEvent(id, content, timestamp) ==
    Event("url_submission",
          [message |-> Trim(content), success |-> Includes(content, "URL added")],
          id, timestamp)

\* createUnknownEvent with the content taken as it is: content: content
createUnknownEventVerbatim(id, content, timestamp) ==
    Event("unknown", [content |-> content], id, timestamp)

createUnknownEvent(id, content, timestamp) ==
    Event("unknown", [content |-> Trim(content)], id, timestamp)

----------------------------------------------------------------------------
(* MessageParser.parseMessage and updateContext *)

\* parseEvent with the player_action branch moved before the chat_message branch
parseEventActionFirst(id, content, timestamp) ==
    IF isLoginSuccess(content) THEN createLoginSuccessEvent(id, content, timestamp)
    ELSE IF isRoomDescription(content) THEN createRoomDescriptionEvent(id, content, timestamp)
    ELSE IF isPlayerAction(content) THEN createPlayerActionEvent(id, content, timestamp)
    ELSE IF isChatMessage(content) THEN createChatMessageEvent(id, content, timestamp)
    ELSE IF isPlayerList(content) THEN createPlayerListEvent(id, content, timestamp)
    ELSE IF isHelpText(content) THEN createHelpTextEvent(id, content, timestamp)
    ELSE IF isSystemResponse(content) THEN createSystemResponseEvent(id, content, timestamp)
    ELSE IF isCommandPrompt(content) THEN createCommandPromptEvent(id, content, timestamp)
    ELSE IF isWelcomeScreen(content) THEN createWelcomeScreenEvent(id, content, timestamp)
    ELSE IF isUrlSubmission(content) THEN createUrlSubmissionEvent(id, content, timestamp)
    ELSE createUnknownEvent(id, content, timestamp)

\* the if / else-if chain of parseMessage: the event for a cleaned content
parseEvent(id, content, timestamp) ==
    IF isLoginSuccess(content) THEN createLoginSuccessEvent(id, content, timestamp)
    ELSE IF isRoomDescription(content) THEN createRoomDescriptionEvent(id, content, timestamp)
    ELSE IF isChatMessage(content) THEN createChatMessageEvent(id, content, timestamp)
    ELSE IF isPlayerList(content) THEN createPlayerListEvent(id, content, timestamp)
    ELSE IF isPlayerAction(content) THEN createPlayerActionEvent(id, content, timestamp)
    ELSE IF isHelpText(content) THEN createHelpTextEvent(id, content, timestamp)
    ELSE IF isSystemResponse(content) THEN createSystemResponseEvent(id, content, timestamp)
    ELSE IF isCommandPrompt(content) THEN createCommandPromptEvent(id, content, timestamp)
    ELSE IF isWelcomeScreen(content) THEN createWelcomeScreenEvent(id, content, timestamp)
    ELSE IF isUrlSubmission(content) THEN createUrlSubmissionEvent(id, content, timestamp)
    ELSE createUnknownEvent(id, content, timestamp)

\* updateContext without its test of the event type: roomContext takes the
\* data of every event
RECURSIVE updateContextAnyType(_, _)
updateContextAnyType(ctx, events) ==
    IF events = <<>> THEN ctx
    ELSE LET event == events[1]
             typed == With(ctx, "lastEventType", event.event_type)
         IN updateContextAnyType(With(typed, "roomContext", event.data),
                                 Tail(events))

RECURSIVE updateContext(_, _)
updateContext(ctx, events) ==
    IF events = <<>> THEN ctx
    ELSE LET event == events[1]
             typed == With(ctx, "lastEventType", event.event_type)
             roomed == IF event.event_type = "room_description"
                       THEN With(typed, "roomContext", event.data)
                       ELSE typed
         IN updateContext(roomed, Tail(events))

\* parseMessage with the context updated before the emptiness test: an empty
\* content counts as an unknown event
parseMessageEmptyUpdates(ctx, id, content, timestamp) ==
    LET pushed == [ctx EXCEPT !.pendingMessages =
                       Append(@, [id |-> id, content |-> content,
                                  timestamp |-> timestamp])]
        cleaned == cleanContent(content)
    IN IF Trim(cleaned) = ""
       THEN [events |-> <<>>, context |-> With(pushed, "lastEventType", "unknown")]
       ELSE LET events == <<parseEvent(id, cleaned, timestamp)>>
            IN [events |-> events, context |-> updateContext(pushed, events)]

\* parseMessage without the final else branch: nothing is pushed for a content
\* that no predicate accepts
parseMessageNoFallback(ctx, id, content, timestamp) ==
    LET pushed == [ctx EXCEPT !.pendingMessages =
                       Append(@, [id |-> id, content |-> content,
                                  timestamp |-> timestamp])]
        cleaned == cleanContent(content)
        event == parseEvent(id, cleaned, timestamp)
    IN IF Trim(cleaned) = "" \/ event.event_type = "unknown"
       THEN [events |-> <<>>, context |-> pushed]
       ELSE [events |-> <<event>>, context |-> updateContext(pushed, <<event>>)]

\* parseMessage with the emptiness test made before trimming: if (!cleanContent)
parseMessageNoTrim(ctx, id, content, timestamp) ==
    LET pushed == [ctx EXCEPT !.pendingMessages =
                       Append(@, [id |-> id, content |-> content,
                                  timestamp |-> timestamp])]
        cleaned == cleanContent(content)
    IN IF cleaned = ""
       THEN [events |-> <<>>, context |-> pushed]
       ELSE LET events == <<parseEvent(id, cleaned, timestamp)>>
            IN [events |-> events, context |-> updateContext(pushed, events)]

\* parseMessage with the context used to disambiguate: an unrecognised content
\* that follows a room description is taken for more of the room
parseMessageContextual(ctx, id, content, timestamp) ==
    LET pushed == [ctx EXCEPT !.pendingMessages =
                       Append(@, [id |-> id, content |-> content,
                                  timestamp |-> timestamp])]
        cleaned == cleanContent(content)
        event == parseEvent(id, cleaned, timestamp)
        inRoom == /\ "lastEventType" \in DOMAIN ctx
                  /\ ctx.lastEventType = "room_description"
                  /\ event.event_type = "unknown"
        events == IF inRoom
                  THEN <<createRoomDescriptionEvent(id, cleaned, timestamp)>>
                  ELSE <<event>>
    IN IF Trim(cleaned) = ""
       THEN [events |-> <<>>, context |-> pushed]
       ELSE [events |-> events, context |-> updateContext(pushed, events)]

\* the end of parseMessage: the context is updated and the events are returned
parseResult(ctx, events) ==
    [events |-> events, context |-> updateContext(ctx, events)]

\* the list parseMessage returns, and the context it leaves behind
parseMessage(ctx, id, content, timestamp) ==
    LET pushed == [ctx EXCEPT !.pendingMessages =
                       Append(@, [id |-> id, content |-> content,
                                  timestamp |-> timestamp])]
    IN IF Trim(cleanContent(content)) = ""
       THEN [events |-> <<>>, context |-> pushed]
       ELSE parseResult(pushed, <<parseEvent(id, cleanContent(content), timestamp)>>)

----------------------------------------------------------------------------
(* The parser under test *)

\* parseMessage calls made on one parser instance
MaxCalls == 2

Parsers == {1, 2}

\* lines the MUD sends
MudLines ==
    {"You are in a small pub.",
     "There is a bar here.",
     "There are two stools here.",
     "The obvious exits are: obvious exits: north, south",
     "obvious exits:",
     "Bob the barman",
     "It is dark.",
     "You say in common: hmm",
     "Bob says in elvish: hi",
     "Bob tells you: psst",
     "You tell Bob: yo",
     "WeeHours LP :: 2 players ::",
     "(idle 5m) Bob (wizard) away",
     "You hop up and down.",
     "Commands      : look",
     Dashes74,
     "Syntax: say <msg>",
     "What?",
     "Sorry, no such help topic",
     "Changed 'idle' to 5",
     ">",
     "What is your name:",
     "URL added to http://weehours.net",
     "asdkjasldkj random text",
     "Bob has entered the game.",
     ""}

\* the lines of a room description
RoomPool ==
    {"You are in a small pub.",
     "There is a bar here.",
     "There are two stools here.",
     "The obvious exits are: obvious exits: north, south",
     "obvious exits:",
     "Bob the barman",
     "It is dark."}

\* the room of the specification's example
PubRoom ==
    "You are in a small pub.\nThere is a bar here.\nThe obvious exits are: obvious exits: north, south"

\* the languages and the messages of "You say in L: M"
Languages == {"common", "elvish_2"}
Messages ==
    {"hmm", " ", "a: b, c", "Bob says in orc: You are in", "You say in orc: ha",
     "who has entered the game?", IAC \o "x", IAC \o WILL \o ECHO \o "hi",
     IAC \o DO \o ECHO}

YouSay(L, M) == "You say in " \o L \o ": " \o M

\* contents that are empty once cleaned and trimmed, and telnet negotiation
Blanks ==
    {" ", "\n\t ", "\r", IAC \o WILL \o ECHO, IAC \o WILL \o ECHO \o "\r\n",
     IAC \o WILL \o ECHO \o "A", IAC \o "A", "A" \o IAC \o WILL}

\* contents with telnet sequences: the option byte 10 (a line feed), two
\* sequences in a row, an IAC before a sequence, a sequence inside a line
TelnetPool ==
    {IAC \o DO \o "\n" \o "A",
     IAC \o WILL \o ECHO \o IAC \o DO \o ECHO \o "B",
     "x" \o IAC \o IAC \o WILL \o "y",
     "What" \o IAC \o WILL \o ECHO \o "?"}

\* contents with CR, CR LF and LF in a row
LineEndPool ==
    {"What?\r", "a\rb", "a\r\r\nb", "\n\r", "a\n\rb\r\n"}

\* the names and the messages of "You tell N: M"
Names == {"Bob", "Al_1"}
TellMessages == {"yo", "see you at 5: ok?"}

YouTell(N, M) == "You tell " \o N \o ": " \o M

\* lines that begin with "You " and go on with something else than a word
ActionPool == {"You ... fall asleep.", "You  wave."}

\* player lists: a player without a title, players with one
WhoPool ==
    {"WeeHours LP :: 2 players ::\nBob\nAl_1 the barman",
     "WeeHours LP :: 2 players ::\r\nAl_1 the  old barman \r\n---"}

Contents ==
    MudLines
    \cup ActionPool
    \cup WhoPool
    \cup {YouTell(N, M) : N \in Names, M \in TellMessages}
    \cup TelnetPool
    \cup LineEndPool
    \cup {a \o "\r\n" \o b : a \in MudLines, b \in MudLines}
    \cup {a \o "\n" \o b \o "\n" \o c : a \in RoomPool, b \in RoomPool, c \in RoomPool}
    \cup {YouSay(L, M) : L \in Languages, M \in Messages}
    \cup Blanks

Units ==
    {[id |-> 1, content |-> c, timestamp |-> "t1"] : c \in Contents}
    \cup {[id |-> 2, content |-> c, timestamp |-> "t2"] : c \in MudLines}

\* what a parser instance may have parsed before the unit under test
PriorUnits ==
    {[id |-> 7, content |-> "You are in a cellar.\nThere are rats",
      timestamp |-> "t0"]}

\* the units given to two parser instances
PairUnits ==
    {[id |-> 1, content |-> c, timestamp |-> "t1"] : c \in MudLines \cup {PubRoom}}

\* a MessageParser and a UserMudConnection as their constructors leave them
NewParsers ==
    /\ context = [p \in Parsers |-> [pendingMessages |-> <<>>]]
    /\ returned = [p \in Parsers |-> <<>>]
    /\ calls = [p \in Parsers |-> <<>>]

NewConnection ==
    /\ socket = "new"
    /\ state = "disconnected"
    /\ loginState = "waiting"
    /\ messageCounter = 0
    /\ handlers = <<>>
    /\ parsed = <<>>
    /\ written = <<>>
    /\ delivered = <<>>

NewManager ==
    /\ activeConnections = 0
    /\ connections = <<>>
    /\ requests = <<>>

Init ==
    /\ unit \in Units
    /\ NewParsers
    /\ NewConnection
    /\ NewManager

\* Returns with the context a static field, one for all the instances
ReturnsStatic(p, u, r) ==
    /\ context' = [q \in Parsers |-> r.context]
    /\ returned' = [returned EXCEPT ![p] = r.events]
    /\ calls' = [calls EXCEPT ![p] = Append(@, u)]

\* parser instance p returns r from the call parseMessage(u.id, u.content,
\* u.timestamp)
Returns(p, u, r) ==
    /\ context' = [context EXCEPT ![p] = r.context]
    /\ returned' = [returned EXCEPT ![p] = r.events]
    /\ calls' = [calls EXCEPT ![p] = Append(@, u)]

Parse(p, u) ==
    /\ Len(calls[p]) < MaxCalls
    /\ Returns(p, u, parseMessage(context[p], u.id, u.content, u.timestamp))
    /\ UNCHANGED <<unit, connVars, sessionVars>>

ParseUnit(p) == Parse(p, unit)

ParsePrior(p) == \E u \in PriorUnits : Parse(p, u)

Next == ParseUnit(1) \/ ParsePrior(1)

Spec == Init /\ [][Next]_vars

\* two parser instances with histories of their own
PairInit ==
    /\ unit \in PairUnits
    /\ NewParsers
    /\ NewConnection
    /\ NewManager

PairNext ==
    \/ \E p \in Parsers : ParseUnit(p)
    \/ \E p \in Parsers : ParsePrior(p)

PairSpec == PairInit /\ [][PairNext]_vars

----------------------------------------------------------------------------
(* UserMudConnection: the socket's 'data' handler.                          *)
(*                                                                         *)
(* A Buffer is written as the string of its bytes.  A handler runs from    *)
(* one await to the next without interruption; between two awaits any      *)
(* other handler may run.  An await on a promise that is already settled   *)
(* (handleAutoLogin when no branch is taken) resumes before any other      *)
(* event is handled.  Awaits that follow one another with no statement of  *)
(* the connection between them (the two database calls of sendCommand and  *)
(* the logMessage call after them; the logParsedEvent calls at the end)    *)
(* are one wait.  The onStateChange notifications change nothing and are   *)
(* left out, and the database does not fail.                               *)

\* chunks received on one connection
MaxChunks == 3

\* U+FFFD, which Buffer.toString() gives for a byte that is not UTF-8
REPLACEMENT == "#"

\* data.toString(): the bytes 0xFB, 0xFD and 0xFF are never valid UTF-8
RECURSIVE toString(_)
toString(data) ==
    LET bad == {i \in 1..Len(data) : SubSeq(data, i, i) \in {IAC, WILL, DO}}
    IN IF bad = {} THEN data
       ELSE Slice(data, 1, Min(bad) - 1) \o REPLACEMENT
                \o toString(Slice(data, Min(bad) + 1, Len(data)))

\* processTelnetData: the text of the bytes from position i on, without the
\* IAC sequences
RECURSIVE processTelnetData(_, _)
processTelnetData(data, i) ==
    LET iacs == {j \in i..Len(data) : SubSeq(data, j, j) = IAC}
    IN IF iacs = {} THEN Slice(data, i, Len(data))
       ELSE Slice(data, i, Min(iacs) - 1)
                \o processTelnetData(data, IF Min(iacs) + 2 < Len(data) + 1
                                           THEN Min(iacs) + 3
                                           ELSE Min(iacs) + 1)

\* the credentials of the user session
Username == "awwaiid"
Password == "secret"

\* what the MUD sends in one chunk
ChunkData ==
    {"What is your name:", "Password:", "Bob has entered the game.",
     "You say in common: hmm", IAC \o WILL \o ECHO}

\* connect(), up to the call of socket.connect
Connect ==
    /\ socket = "new"
    /\ state = "disconnected"
    /\ state' = "connecting"
    /\ UNCHANGED <<sessionVars, parserVars, socket, loginState, messageCounter, handlers,
                   parsed, written, delivered>>

\* the 10 s timer of connect() runs out before the socket is connected
ConnectTimeout ==
    /\ socket = "new"
    /\ state = "connecting"
    /\ state' = "error"
    /\ UNCHANGED <<sessionVars, parserVars, socket, loginState, messageCounter, handlers,
                   parsed, written, delivered>>

\* the callback of socket.connect; the timer is cleared, but a timer that has
\* run out did not stop the socket
SocketConnected ==
    /\ socket = "new"
    /\ state \in {"connecting", "error"}
    /\ socket' = "open"
    /\ state' = "login"
    /\ UNCHANGED <<sessionVars, parserVars, loginState, messageCounter, handlers, parsed,
                   written, delivered>>

\* the socket's 'error' event, before or after the socket is connected
SocketError ==
    /\ \/ socket = "open"
       \/ socket = "new" /\ state \in {"connecting", "error"}
    /\ socket' = "errored"
    /\ state' = "error"
    /\ UNCHANGED <<sessionVars, parserVars, loginState, messageCounter, handlers, parsed,
                   written, delivered>>

\* the socket's 'close' event
SocketClose ==
    /\ socket \in {"open", "errored"}
    /\ socket' = "closed"
    /\ state' = "disconnected"
    /\ UNCHANGED <<sessionVars, parserVars, loginState, messageCounter, handlers, parsed,
                   written, delivered>>

\* the 'data' handler with a handleAutoLogin that tests the trigger text only,
\* whatever loginState is
DataAnyLoginState(data) ==
    LET text == toString(data)
        cleanText == processTelnetData(data, 1)
        Start(pc, command) ==
            handlers' = Append(handlers,
                               [data |-> data, text |-> text, pc |-> pc,
                                command |-> command])
    IN /\ socket = "open"
       /\ Len(handlers) < MaxChunks
       /\ messageCounter' = messageCounter + 1
       /\ delivered' = IF cleanText # "" THEN Append(delivered, cleanText) ELSE delivered
       /\ IF Includes(text, "What is your name:")
          THEN loginState' = "username" /\ state' = state /\ Start("sleep", Username)
          ELSE IF Includes(text, "Password:")
          THEN loginState' = "password" /\ state' = state /\ Start("sleep", Password)
          ELSE IF Includes(text, "entered the game")
          THEN loginState' = "logged_in" /\ state' = "connected" /\ Start("log", "")
          ELSE loginState' = loginState /\ state' = state /\ Start("log", "")
       /\ UNCHANGED <<sessionVars, parserVars, socket, parsed, written>>

\* the socket's 'data' event: the handler up to its first pending await
Data(data) ==
    LET text == toString(data)
        cleanText == processTelnetData(data, 1)
        \* the handler waits at pc; command is what it will give to sendCommand
        Start(pc, command) ==
            handlers' = Append(handlers,
                               [data |-> data, text |-> text, pc |-> pc,
                                command |-> command])
    IN /\ socket = "open"
       /\ Len(handlers) < MaxChunks
       /\ messageCounter' = messageCounter + 1
       /\ delivered' = IF cleanText # "" THEN Append(delivered, cleanText) ELSE delivered
       \* handleAutoLogin(text)
       /\ IF loginState = "waiting" /\ Includes(text, "What is your name:")
          THEN loginState' = "username" /\ state' = state /\ Start("sleep", Username)
          ELSE IF loginState = "username" /\ Includes(text, "Password:")
          THEN loginState' = "password" /\ state' = state /\ Start("sleep", Password)
          ELSE IF loginState = "password" /\ Includes(text, "entered the game")
          THEN loginState' = "logged_in" /\ state' = "connected" /\ Start("log", "")
          \* no branch: database.logMessage is called at once
          ELSE loginState' = loginState /\ state' = state /\ Start("log", "")
       /\ UNCHANGED <<sessionVars, parserVars, socket, parsed, written>>

\* sleep(500) is over: sendCommand
Send(k) ==
    /\ handlers[k].pc = "sleep"
    /\ IF state \in {"disconnected", "error"}
       \* 'Connection is not active' is thrown: the handler's promise rejects
       THEN /\ handlers' = [handlers EXCEPT ![k].pc = "failed"]
            /\ written' = written
       ELSE /\ handlers' = [handlers EXCEPT ![k].pc = "log"]
            /\ written' = Append(written, handlers[k].command \o "\n")
    /\ UNCHANGED <<sessionVars, parserVars, socket, state, loginState, messageCounter, parsed,
                   delivered>>

\* database.logMessage is over: parseMessage, and the rest of the handler
ParseChunk(k) ==
    /\ handlers[k].pc = "log"
    /\ Returns(1, [id |-> messageCounter, content |-> handlers[k].text,
                   timestamp |-> "now"],
               parseMessage(context[1], messageCounter, handlers[k].text, "now"))
    /\ handlers' = [handlers EXCEPT ![k].pc = "done"]
    /\ parsed' = Append(parsed, k)
    /\ UNCHANGED <<sessionVars, unit, socket, state, loginState, messageCounter, written,
                   delivered>>

ConnInit ==
    /\ unit = [id |-> 0, content |-> "", timestamp |-> ""]
    /\ NewParsers
    /\ NewConnection
    /\ NewManager

ConnNext ==
    \/ Connect
    \/ ConnectTimeout
    \/ SocketConnected
    \/ SocketError
    \/ SocketClose
    \/ \E data \in ChunkData : Data(data)
    \/ \E k \in 1..Len(handlers) : Send(k)
    \/ \E k \in 1..Len(handlers) : ParseChunk(k)

ConnSpec == ConnInit /\ [][ConnNext]_vars

----------------------------------------------------------------------------
(* UserSessionManager: the MUD connections of one session id *)

\* the connectMudForUser and disconnectMud calls of one run
MaxRequests == 3

AlreadyActive == "User already has an active MUD connection"
ConnectionTimeout == "Connection timeout"
SocketFailed == "socket error"

Request(op, pc, conn, error) ==
    [op |-> op, pc |-> pc, conn |-> conn, error |-> error]

\* the request that awaits connect() of connection c, if any
Awaiting(c) ==
    {r \in 1..Len(requests) : requests[r].pc = "connect" /\ requests[r].conn = c}

\* connect() of connection c settles: the awaiting connectMudForUser goes on
Settle(c, pc, error) ==
    [r \in 1..Len(requests) |->
        IF r \in Awaiting(c) THEN [requests[r] EXCEPT !.pc = pc, !.error = error]
        ELSE requests[r]]

\* connectMudForUser is called: it awaits getSession
connectMudForUser ==
    /\ Len(requests) < MaxRequests
    /\ requests' = Append(requests, Request("connect", "getSession", 0, ""))
    /\ UNCHANGED <<parserVars, connVars, activeConnections, connections>>

\* connectMudForUser after getSession: the has() test, the new
\* UserMudConnection, and connect() up to the call of socket.connect
GetSessionDone(r) ==
    /\ requests[r].pc = "getSession"
    /\ IF activeConnections # 0
       THEN /\ requests' = [requests EXCEPT ![r].pc = "failed",
                                            ![r].error = AlreadyActive]
            /\ UNCHANGED connections
       ELSE /\ connections' = Append(connections,
                                     [socket |-> "new", state |-> "connecting",
                                      closedAfter |-> 0])
            /\ requests' = [requests EXCEPT ![r].pc = "connect",
                                            ![r].conn = Len(connections) + 1]
    /\ UNCHANGED <<parserVars, connVars, activeConnections>>

\* the callback of socket.connect of connection c; a connectMudForUser that
\* still awaits connect() goes on to activeConnections.set
ManagedConnected(c) ==
    /\ connections[c].socket = "new"
    /\ connections[c].state \in {"connecting", "error"}
    /\ connections' = [connections EXCEPT ![c].socket = "open", ![c].state = "login"]
    /\ requests' = Settle(c, "done", "")
    /\ activeConnections' = IF Awaiting(c) # {} THEN c ELSE activeConnections
    /\ UNCHANGED <<parserVars, connVars>>

\* the 10 s timer of connect() of connection c runs out
ManagedTimeout(c) ==
    /\ connections[c].socket = "new"
    /\ connections[c].state = "connecting"
    /\ connections' = [connections EXCEPT ![c].state = "error"]
    /\ requests' = Settle(c, "failed", ConnectionTimeout)
    /\ UNCHANGED <<parserVars, connVars, activeConnections>>

\* the 'error' event of the socket of connection c
ManagedError(c) ==
    /\ \/ connections[c].socket = "open"
       \/ /\ connections[c].socket = "new"
          /\ connections[c].state \in {"connecting", "error"}
    /\ connections' = [connections EXCEPT ![c].socket = "errored", ![c].state = "error"]
    /\ requests' = Settle(c, "failed", SocketFailed)
    /\ UNCHANGED <<parserVars, connVars, activeConnections>>

\* the 'close' event of the socket of connection c: the MUD closed it;
\* closedAfter is history, the number of calls made on the manager before
ManagedClose(c) ==
    /\ connections[c].socket \in {"open", "errored"}
    /\ connections' = [connections EXCEPT ![c].socket = "closed",
                                          ![c].state = "disconnected",
                                          ![c].closedAfter = Len(requests)]
    /\ UNCHANGED <<parserVars, connVars, activeConnections, requests>>

\* disconnect() of a connection, up to its first await
disconnect(conn) ==
    IF conn.state # "disconnected"
    THEN [conn EXCEPT !.socket = "destroyed", !.state = "disconnected"]
    ELSE conn

\* disconnectMud is called: with a connection in the map it awaits disconnect()
disconnectMud ==
    /\ Len(requests) < MaxRequests
    /\ IF activeConnections # 0
       THEN /\ connections' = [connections EXCEPT
                    ![activeConnections] = disconnect(connections[activeConnections])]
            /\ requests' = Append(requests,
                    Request("disconnect", "disconnect", activeConnections, ""))
       ELSE /\ requests' = Append(requests, Request("disconnect", "done", 0, ""))
            /\ UNCHANGED connections
    /\ UNCHANGED <<parserVars, connVars, activeConnections>>

\* disconnectMud after disconnect(): activeConnections.delete
DisconnectDone(r) ==
    /\ requests[r].pc = "disconnect"
    /\ activeConnections' = 0
    /\ requests' = [requests EXCEPT ![r].pc = "done"]
    /\ UNCHANGED <<parserVars, connVars, connections>>

SessionInit ==
    /\ unit = [id |-> 0, content |-> "", timestamp |-> ""]
    /\ NewParsers
    /\ NewConnection
    /\ NewManager

SessionNext ==
    \/ connectMudForUser
    \/ \E r \in 1..Len(requests) : GetSessionDone(r)
    \/ \E c \in 1..Len(connections) : ManagedConnected(c)
    \/ \E c \in 1..Len(connections) : ManagedTimeout(c)
    \/ \E c \in 1..Len(connections) : ManagedError(c)
    \/ \E c \in 1..Len(connections) : ManagedClose(c)
    \/ disconnectMud
    \/ \E r \in 1..Len(requests) : DisconnectDone(r)

SessionSpec == SessionInit /\ [][SessionNext]_vars

----------------------------------------------------------------------------
(* Properties of parseMessage *)

Called(p) == calls[p] # <<>>

\* the arguments of the last parseMessage call on p, and its cleaned content
LastCall(p) == calls[p][Len(calls[p])]
Cleaned(p) == cleanContent(LastCall(p).content)

\* the last call on p returned one event of this type
Returned(p, type) ==
    /\ Called(p)
    /\ Len(returned[p]) = 1
    /\ returned[p][1].event_type = type

\* the ten types of the predicate chain, in its order
TypeOrder ==
    <<"login_success", "room_description", "chat_message", "player_list",
      "player_action", "help_text", "system_response", "command_prompt",
      "welcome_screen", "url_submission">>

Satisfies(content, type) ==
    CASE type = "login_success" -> isLoginSuccess(content)
      [] type = "room_description" -> isRoomDescription(content)
      [] type = "chat_message" -> isChatMessage(content)
      [] type = "player_list" -> isPlayerList(content)
      [] type = "player_action" -> isPlayerAction(content)
      [] type = "help_text" -> isHelpText(content)
      [] type = "system_response" -> isSystemResponse(content)
      [] type = "command_prompt" -> isCommandPrompt(content)
      [] type = "welcome_screen" -> isWelcomeScreen(content)
      [] type = "url_submission" -> isUrlSubmission(content)

\* the type of the earliest predicate the content satisfies
FirstMatch(content) ==
    LET hits == {i \in 1..Len(TypeOrder) : Satisfies(content, TypeOrder[i])}
    IN IF hits = {} THEN "unknown" ELSE TypeOrder[Min(hits)]

\* C1 (Totality): whatever the parser instance has parsed before, a call whose
\* cleaned and trimmed content is not empty returns exactly one event, and the
\* event's type is one of the ten named types or "unknown".
C1_Totality ==
    \A p \in Parsers :
        (Called(p) /\ Trim(Cleaned(p)) # "") =>
            /\ Len(returned[p]) = 1
            /\ returned[p][1].event_type
                   \in {TypeOrder[i] : i \in 1..Len(TypeOrder)} \cup {"unknown"}

\* a second call on the instance, with a content no predicate accepts
C1_Witness ==
    /\ Len(calls[1]) = 2
    /\ LastCall(1).content = "asdkjasldkj random text"
    /\ Returned(1, "unknown")

\* C2 (First-match ordering): the type of the returned event is the type of the
\* earliest predicate of the fixed order that the cleaned content satisfies,
\* "unknown" exactly when it satisfies none; and a content with "You are in"
\* and "obvious exits:" is never a player_action.
C2_FirstMatch ==
    \A p \in Parsers :
        (Called(p) /\ returned[p] # <<>>) =>
            /\ returned[p][1].event_type = FirstMatch(Cleaned(p))
            /\ (Includes(Cleaned(p), "You are in")
                    /\ Includes(Cleaned(p), "obvious exits:"))
                   => returned[p][1].event_type # "player_action"

\* a content that satisfies the chat_message and the player_action predicate
C2_Witness ==
    /\ Called(1)
    /\ isChatMessage(Cleaned(1))
    /\ isPlayerAction(Cleaned(1))
    /\ Returned(1, "chat_message")

\* C3 (Emptiness): a call whose cleaned content is empty after trimming returns
\* the empty list.
C3_Emptiness ==
    \A p \in Parsers :
        (Called(p) /\ Trim(Cleaned(p)) = "") => returned[p] = <<>>

\* a line ending alone, parsed after another unit, gives no event
C3_Witness ==
    /\ Len(calls[1]) = 2
    /\ LastCall(1).content = "\r\n"
    /\ returned[1] = <<>>

\* C4 (Context carry-over is non-observable): two parser instances given the
\* same (id, content, timestamp) return the same list, whatever each of them
\* parsed before.
C4_SameResult ==
    (Called(1) /\ Called(2) /\ LastCall(1) = LastCall(2))
        => returned[1] = returned[2]

\* the same unit parsed by a fresh instance and by an instance whose last event
\* was a room description
C4_Witness ==
    /\ calls[1] = <<unit>>
    /\ Len(calls[2]) = 2
    /\ calls[2][1] \in PriorUnits
    /\ calls[2][2] = unit
    /\ Returned(1, "unknown")
    /\ returned[1] = returned[2]

\* C5 (arrival-order invocation): on one connection the 'data' handlers call
\* parseMessage for the chunks in the order the chunks arrived; a call is one
\* step of the model, so no call starts while another is in progress.
C5_ArrivalOrder ==
    \A i, j \in 1..Len(parsed) : i < j => parsed[i] < parsed[j]

\* the data of the event the last call on p returned
EventData(p) == returned[p][1].data

\* data has these fields
Has(data, fields) == fields \subseteq DOMAIN data

\* the text holds a telnet sequence that cleanContent removes
HasTelnetSequence(text) ==
    \E i \in 1..(Len(text) - 2) :
        /\ SubSeq(text, i, i) = IAC
        /\ SubSeq(text, i + 1, i + 1) \in TelnetCommands

\* the chat event of "You say in L: M"
IsYouSay(p, L, M) ==
    /\ Returned(p, "chat_message")
    /\ Has(EventData(p), {"speaker", "language", "message", "chat_type"})
    /\ EventData(p).speaker = "Awwaiid"
    /\ EventData(p).language = L
    /\ EventData(p).message = M
    /\ EventData(p).chat_type = "say"

\* C6 as stated: every content "You say in L: M", M a non-empty text without
\* line breaks, that is neither a login_success nor a room_description gives a
\* chat_message with speaker "Awwaiid", language L, message M, chat_type "say".
C6_Original ==
    \A p \in Parsers : \A L \in Languages, M \in Messages :
        (/\ Called(p)
         /\ LastCall(p).content = YouSay(L, M)
         /\ ~isLoginSuccess(Cleaned(p))
         /\ ~isRoomDescription(Cleaned(p)))
            => IsYouSay(p, L, M)

\* C6, amended: the same, for the messages M that hold no telnet sequence (IAC,
\* a command character 0xFB..0xFF, one more character); cleanContent removes
\* such a sequence before the message is extracted.
C6_YouSay ==
    \A p \in Parsers : \A L \in Languages, M \in Messages :
        (/\ Called(p)
         /\ LastCall(p).content = YouSay(L, M)
         /\ ~HasTelnetSequence(M)
         /\ ~isLoginSuccess(Cleaned(p))
         /\ ~isRoomDescription(Cleaned(p)))
            => IsYouSay(p, L, M)

\* "You say in common: hmm", parsed after another unit
C6_Witness ==
    /\ Len(calls[1]) = 2
    /\ LastCall(1).content = "You say in common: hmm"
    /\ IsYouSay(1, "common", "hmm")

\* the non-blank trimmed lines of a cleaned content
NonBlankLines(content) == NonEmpty(TrimAll(Split(content, "\n")))

Range(seq) == {seq[i] : i \in 1..Len(seq)}

IsObjectsMarker(line) == Includes(line, "There is a") \/ Includes(line, "There are")
IsExitsMarker(line) == Includes(line, "obvious exits:")

\* C7 as stated: in a room_description event, a line that introduces the
\* objects section ("There is a" / "There are") and contains a period is an
\* element of data.objects; for the pub of the example, data.objects contains
\* "There is a bar here.".
C7_Claim ==
    \A p \in Parsers :
        Returned(p, "room_description") =>
            /\ \A line \in Range(NonBlankLines(Cleaned(p))) :
                   (IsObjectsMarker(line) /\ ~IsExitsMarker(line) /\ Includes(line, "."))
                       => line \in Range(EventData(p).objects)
            /\ LastCall(p).content = PubRoom
                   => "There is a bar here." \in Range(EventData(p).objects)

\* the text after the first "exits:" of a line
AfterExits(line) == Slice(line, IndexOf(line, "exits:") + 6, Len(line))

\* the exits of the lines as C8 states them: the text after "exits:" of each
\* line that contains "obvious exits:", split at commas, each piece trimmed
RECURSIVE SplitExits(_)
SplitExits(lines) ==
    IF lines = <<>> THEN <<>>
    ELSE (IF IsExitsMarker(lines[1])
          THEN TrimAll(Split(AfterExits(lines[1]), ","))
          ELSE <<>>)
         \o SplitExits(Tail(lines))

\* the same, a line with nothing after "exits:" giving no piece
RECURSIVE SplitExitsGiven(_)
SplitExitsGiven(lines) ==
    IF lines = <<>> THEN <<>>
    ELSE (IF IsExitsMarker(lines[1]) /\ AfterExits(lines[1]) # ""
          THEN TrimAll(Split(AfterExits(lines[1]), ","))
          ELSE <<>>)
         \o SplitExitsGiven(Tail(lines))

\* C8 as stated: in a room_description event, data.exits is the list of the
\* trimmed comma-separated pieces of the text after "exits:" of each line that
\* contains "obvious exits:", in order; ["north", "south"] for the example.
C8_Original ==
    \A p \in Parsers :
        Returned(p, "room_description") =>
            /\ EventData(p).exits = SplitExits(NonBlankLines(Cleaned(p)))
            /\ LastCall(p).content = PubRoom => EventData(p).exits = <<"north", "south">>

\* C8, amended: the same, except that a line with no text after "exits:" adds
\* no element to data.exits (splitting its empty text would add one empty
\* string).
C8_Exits ==
    \A p \in Parsers :
        Returned(p, "room_description") =>
            /\ EventData(p).exits = SplitExitsGiven(NonBlankLines(Cleaned(p)))
            /\ LastCall(p).content = PubRoom => EventData(p).exits = <<"north", "south">>

\* the pub of the example, parsed after another unit
C8_Witness ==
    /\ Len(calls[1]) = 2
    /\ LastCall(1).content = PubRoom
    /\ Returned(1, "room_description")
    /\ EventData(1).exits = <<"north", "south">>

\* the lines before the first exits or objects marker line
BeforeMarker(lines) ==
    LET markers == {i \in 1..Len(lines) :
                       IsExitsMarker(lines[i]) \/ IsObjectsMarker(lines[i])}
    IN IF markers = {} THEN lines ELSE SubSeq(lines, 1, Min(markers) - 1)

\* the lines that do not contain the phrase, in order
RECURSIVE Without(_, _)
Without(lines, phrase) ==
    IF lines = <<>> THEN <<>>
    ELSE IF Includes(lines[1], phrase) THEN Without(Tail(lines), phrase)
    ELSE <<lines[1]>> \o Without(Tail(lines), phrase)

\* C9 (Room parsing, description): in a room_description event,
\* data.description is the space-joined sequence of exactly the non-blank
\* trimmed lines that come before the first exits or objects marker line and do
\* not contain "You are in".
C9_Description ==
    \A p \in Parsers :
        Returned(p, "room_description") =>
            EventData(p).description =
                Join(Without(BeforeMarker(NonBlankLines(Cleaned(p))), "You are in"), " ")

\* a room whose description line comes before the "You are in" line and a marker
C9_Witness ==
    /\ Called(1)
    /\ LastCall(1).content
           = "It is dark.\nYou are in a small pub.\nThere are two stools here."
    /\ Returned(1, "room_description")
    /\ EventData(1).description = "It is dark."

\* C10 as stated: a player_list content with the line
\* "(idle 5m) Bob (wizard) away" has in data.players, for that line, exactly one
\* record, with name "Bob", idle_time "5m", title "(wizard)" and status "away".
C10_Claim ==
    \A p \in Parsers :
        (/\ Returned(p, "player_list")
         /\ "(idle 5m) Bob (wizard) away" \in Range(Split(Cleaned(p), "\n")))
            => \E i \in 1..Len(EventData(p).players) :
                   /\ EventData(p).players[i]
                          = [name |-> "Bob", idle_time |-> "5m",
                             title |-> "(wizard)", status |-> "away"]
                   /\ \A j \in 1..Len(EventData(p).players) :
                          EventData(p).players[j].idle_time = "5m" => j = i

\* the text from position i on without the three-character sequences made of
\* IAC, a command character and any further character, read from left to right
RECURSIVE WithoutSequences(_, _)
WithoutSequences(s, i) ==
    LET at == {j \in i..(Len(s) - 2) :
                  /\ SubSeq(s, j, j) = IAC
                  /\ SubSeq(s, j + 1, j + 1) \in TelnetCommands}
    IN IF at = {} THEN Slice(s, i, Len(s))
       ELSE Slice(s, i, Min(at) - 1) \o WithoutSequences(s, Min(at) + 3)

\* the text with CR LF and CR written as LF
LineFeeds(s) == ReplaceAll(ReplaceAll(s, "\r\n", "\n", 1), "\r", "\n", 1)

\* C11 (telnet stripping): the cleaning made before classification removes in
\* full every sequence of IAC, a command byte and an option byte, whatever the
\* option byte, and keeps the other characters in their order (line ends
\* normalised); IAC WILL ECHO "A" cleans to "A".
C11_Claim ==
    Called(1) =>
        /\ Cleaned(1) = LineFeeds(WithoutSequences(LastCall(1).content, 1))
        /\ LastCall(1).content = IAC \o WILL \o ECHO \o "A" => Cleaned(1) = "A"

\* the last call on p returned the unknown event of its cleaned content
IsUnknown(p) ==
    /\ Returned(p, "unknown")
    /\ EventData(p) = [content |-> Trim(Cleaned(p))]

\* C12 as stated: every content whose cleaned text is not empty and satisfies
\* none of the ten predicates gives one unknown event whose data.content is
\* the trimmed cleaned content.
C12_Original ==
    (Called(1) /\ Cleaned(1) # "" /\ FirstMatch(Cleaned(1)) = "unknown")
        => IsUnknown(1)

\* C12 (unknown fallback): every content whose cleaned text is not empty once
\* trimmed and satisfies none of the ten predicates gives one unknown event
\* whose data.content is the trimmed cleaned content.
C12_Unknown ==
    (Called(1) /\ Trim(Cleaned(1)) # "" /\ FirstMatch(Cleaned(1)) = "unknown")
        => IsUnknown(1)

\* an unrecognised line with its line end: the event holds the line alone
C12_Witness ==
    /\ Called(1)
    /\ LastCall(1).content = "asdkjasldkj random text\r\n"
    /\ Returned(1, "unknown")
    /\ EventData(1).content = "asdkjasldkj random text"

\* C13 (idempotent cleaning): for every content without an IAC character,
\* cleaning the cleaned text gives the cleaned text again, and the cleaned
\* text holds no CR.
C13_Idempotent ==
    (Called(1) /\ ~Includes(LastCall(1).content, IAC))
        => /\ cleanContent(Cleaned(1)) = Cleaned(1)
           /\ ~Includes(Cleaned(1), "\r")

\* a content with a lone CR before a CR LF: both become LF
C13_Witness ==
    /\ Called(1)
    /\ LastCall(1).content = "a\r\r\nb"
    /\ Cleaned(1) = "a\n\nb"
    /\ cleanContent(Cleaned(1)) = "a\n\nb"

\* C14 (provenance fields): every event a call returns, whatever its type, has
\* raw_message_ids equal to the list of the call's id alone and timestamp
\* equal to the call's timestamp.
C14_Provenance ==
    Called(1) =>
        \A i \in 1..Len(returned[1]) :
            /\ returned[1][i].raw_message_ids = <<LastCall(1).id>>
            /\ returned[1][i].timestamp = LastCall(1).timestamp

\* a chat line parsed as unit 2 after the unit 7 of a room
C14_Witness ==
    /\ Len(calls[1]) = 2
    /\ calls[1][1].id = 7
    /\ LastCall(1) = [id |-> 2, content |-> "Bob tells you: psst", timestamp |-> "t2"]
    /\ Returned(1, "chat_message")
    /\ returned[1][1].raw_message_ids = <<2>>
    /\ returned[1][1].timestamp = "t2"

\* the fields of a ParsedEvent
EventFields == {"session_id", "event_type", "data", "raw_message_ids", "timestamp"}

\* none of the three extractions of createChatMessageEvent matches
NoChatMatch(content) ==
    /\ MatchYouSay(content) = <<>>
    /\ MatchOtherSay(content) = <<>>
    /\ MatchTell(content) = <<>>

\* C15 (no failure outcome): every call ends by returning a list, of events
\* with all their fields; a chat message none of the extractions matches is
\* built all the same, with speaker, message, language and chat_type absent.
C15_NoFailure ==
    Called(1) =>
        /\ Len(returned[1]) \in {0, 1}
        /\ \A i \in 1..Len(returned[1]) :
               /\ DOMAIN returned[1][i] = EventFields
               /\ returned[1][i].event_type
                      \in {TypeOrder[t] : t \in 1..Len(TypeOrder)} \cup {"unknown"}
        /\ (Returned(1, "chat_message") /\ NoChatMatch(Cleaned(1)))
               => EventData(1) = [raw_content |-> Trim(Cleaned(1))]

\* "You tell Bob: yo" is a chat message that no extraction matches
C15_Witness ==
    /\ Called(1)
    /\ LastCall(1).content = "You tell Bob: yo"
    /\ NoChatMatch(Cleaned(1))
    /\ Returned(1, "chat_message")
    /\ DOMAIN EventData(1) = {"raw_content"}

\* C16 (RawUnit ids): on one connection the id given to parseMessage is
\* strictly increasing over the successive calls, so no two chunks are parsed
\* with the same id, however the 'data' handlers interleave.
C16_Claim ==
    \A i, j \in 1..Len(calls[1]) : i < j => calls[1][i].id < calls[1][j].id

\* C17 (no retention of raw units): after parseMessage returns, the parser
\* instance holds no copy of a unit (id, content, timestamp) it was given, so
\* what it stores does not grow with the number of calls.
C17_Claim ==
    \A i \in 1..Len(calls[1]) :
        calls[1][i] \notin Range(context[1].pendingMessages)

\* C18 (instance isolation): each connection has a MessageParser of its own,
\* and a parseMessage call made on one instance leaves the context of every
\* other instance as it was, however the calls of the sessions interleave.
C18_Isolation ==
    [][\A p \in Parsers : calls'[p] = calls[p] => context'[p] = context[p]]_vars

\* both instances have parsed, and their contexts differ
C18_Witness ==
    /\ Called(1)
    /\ Called(2)
    /\ "lastEventType" \in DOMAIN context[1]
    /\ "lastEventType" \in DOMAIN context[2]
    /\ context[1].lastEventType = "chat_message"
    /\ context[2].lastEventType = "room_description"
    /\ "roomContext" \notin DOMAIN context[1]

\* the roomContext of a context: a list, empty while roomContext is undefined
RoomContextOf(ctx) ==
    IF "roomContext" \in DOMAIN ctx THEN <<ctx.roomContext>> ELSE <<>>

\* C19 (context update): after every call that returns an event, lastEventType
\* is the type of that event; roomContext is the data of the event when the
\* type is room_description, and is what it was before the call otherwise.
C19_ContextUpdate ==
    [][(calls'[1] # calls[1] /\ returned'[1] # <<>>)
          => /\ "lastEventType" \in DOMAIN context'[1]
             /\ context'[1].lastEventType = returned'[1][1].event_type
             /\ IF returned'[1][1].event_type = "room_description"
                THEN RoomContextOf(context'[1]) = <<returned'[1][1].data>>
                ELSE RoomContextOf(context'[1]) = RoomContextOf(context[1])]_vars

\* a chat line parsed after a room: the room stays the roomContext
C19_Witness ==
    /\ Len(calls[1]) = 2
    /\ calls[1][1] \in PriorUnits
    /\ Returned(1, "chat_message")
    /\ context[1].lastEventType = "chat_message"
    /\ RoomContextOf(context[1]) =
           <<createRoomDescriptionEvent(7, calls[1][1].content, "t0").data>>

\* C20 (chat extraction, "You tell" form): every content "You tell N: M" that
\* is classified chat_message and matches none of the other three chat forms
\* gives an event with speaker "Awwaiid", message M, chat_type "tell" and
\* language "common".
C20_Claim ==
    \A N \in Names, M \in TellMessages :
        (/\ Called(1)
         /\ LastCall(1).content = YouTell(N, M)
         /\ Returned(1, "chat_message")
         /\ NoChatMatch(Cleaned(1)))
            => /\ Has(EventData(1), {"speaker", "message", "chat_type", "language"})
               /\ EventData(1).speaker = "Awwaiid"
               /\ EventData(1).message = M
               /\ EventData(1).chat_type = "tell"
               /\ EventData(1).language = "common"

\* the content satisfies none of the four predicates tested before
\* isPlayerAction
BeforeAction(content) ==
    \/ isLoginSuccess(content)
    \/ isRoomDescription(content)
    \/ isChatMessage(content)
    \/ isPlayerList(content)

\* the last call on p returned the player_action event of its cleaned content
IsAction(p) ==
    /\ Returned(p, "player_action")
    /\ EventData(p) = [action |-> Trim(Cleaned(p)), player |-> "Awwaiid"]

ResponseTypes ==
    <<"syntax_error", "unknown_command", "help_not_found", "setting_changed">>

ResponseTest(content, type) ==
    CASE type = "syntax_error" -> StartsWith(content, "Syntax:")
      [] type = "unknown_command" -> Trim(content) = "What?"
      [] type = "help_not_found" -> Includes(content, "Sorry, no such help topic")
      [] type = "setting_changed" -> Includes(content, "Changed 'idle' to")

\* the type of the earliest test the content passes, "general" when none
FirstResponse(content) ==
    LET hits == {i \in 1..Len(ResponseTypes) :
                    ResponseTest(content, ResponseTypes[i])}
    IN IF hits = {} THEN "general" ELSE ResponseTypes[Min(hits)]

\* C22 (system_response typing): the response_type of a system_response event
\* is that of the first test that holds, in the order Syntax:, What?, help
\* phrase, idle phrase, and general otherwise; a content that starts with
\* "Syntax:" and holds the help phrase is a syntax_error.
C22_Typing ==
    Returned(1, "system_response") =>
        /\ EventData(1).response_type = FirstResponse(Cleaned(1))
        /\ (/\ StartsWith(Cleaned(1), "Syntax:")
            /\ Includes(Cleaned(1), "Sorry, no such help topic"))
               => EventData(1).response_type = "syntax_error"

\* a syntax message followed by the help phrase
C22_Witness ==
    /\ Returned(1, "system_response")
    /\ LastCall(1).content = "Syntax: say <msg>\r\nSorry, no such help topic"
    /\ EventData(1).response_type = "syntax_error"

\* the IAC character is the last or the last but one character of the text
EndsInIAC(s) ==
    \/ Len(s) >= 1 /\ SubSeq(s, Len(s), Len(s)) = IAC
    \/ Len(s) >= 2 /\ SubSeq(s, Len(s) - 1, Len(s) - 1) = IAC

\* C23 (incomplete IAC tolerance): when IAC is the last or the last but one
\* character of the content, the cleaning made before classification drops
\* that IAC and keeps the character after it, so the cleaned text that is
\* classified holds no IAC.
C23_Claim ==
    (Called(1) /\ EndsInIAC(LastCall(1).content))
        => ~Includes(Cleaned(1), IAC)

\* C24 (transport hand-off): for every chunk, the content the connection gives
\* to parseMessage is the text processTelnetData made of the chunk, not the
\* chunk's text before the stripping.
C24_Claim ==
    \A i \in 1..Len(parsed) :
        calls[1][i].content = processTelnetData(handlers[parsed[i]].data, 1)

\* the non-empty tokens of a line, delimited by white space
Tokens(line) == NonEmpty(SplitSpaces(line))

\* a line C25 speaks of: not an idle line, without "::" and "---", with at
\* least one token
IsActiveLine(line) ==
    /\ MatchIdle(line) = <<>>
    /\ ~Includes(line, "::")
    /\ ~Includes(line, "---")
    /\ Tokens(line) # <<>>

\* C25 (player list, active line): in a player_list event every such line
\* gives a record with name the first token, idle_time "active", title the
\* other tokens joined by single spaces (empty when there are none) and
\* status ""; total_players is the number of records.
C25_Claim ==
    Returned(1, "player_list") =>
        /\ EventData(1).total_players = Len(EventData(1).players)
        /\ \A line \in Range(Split(Cleaned(1), "\n")) :
               IsActiveLine(line) =>
                   [name |-> Tokens(line)[1],
                    idle_time |-> "active",
                    title |-> Join(Tail(Tokens(line)), " "),
                    status |-> ""] \in Range(EventData(1).players)

\* the connections whose connect() resolved for a connectMudForUser call and
\* whose socket is still open
Connected ==
    {c \in 1..Len(connections) :
        /\ connections[c].socket = "open"
        /\ \E r \in 1..Len(requests) :
               /\ requests[r].op = "connect"
               /\ requests[r].pc = "done"
               /\ requests[r].conn = c}

\* C26: under any interleaving of connectMudForUser calls for the session, at
\* most one of its connections is connected, and a connected connection is the
\* one activeConnections holds
C26_Claim ==
    /\ Cardinality(Connected) <= 1
    /\ \A c \in Connected : activeConnections = c

\* the login states in their order, and the text that triggers the step to each
LoginOrder == <<"waiting", "username", "password", "logged_in">>
Rank(ls) == CHOOSE i \in 1..Len(LoginOrder) : LoginOrder[i] = ls
Trigger(ls) ==
    CASE ls = "username" -> "What is your name:"
      [] ls = "password" -> "Password:"
      [] ls = "logged_in" -> "entered the game"
      [] OTHER -> ""

\* how often the auto-login wrote the command to the socket
Written(command) ==
    Cardinality({i \in 1..Len(written) : written[i] = command \o "\n"})

\* a change of loginState is one step forward, made by the handler of a chunk
\* that holds the trigger text of the new state
LoginStep ==
    loginState' # loginState =>
        /\ Rank(loginState') = Rank(loginState) + 1
        /\ Len(handlers') = Len(handlers) + 1
        /\ Includes(handlers'[Len(handlers')].text, Trigger(loginState'))

\* C27: loginState only moves forward one step at a time along waiting, username,
\* password, logged_in, each step on a chunk with its trigger text, and the
\* username and the password are each written to the socket at most once, under
\* any interleaving of the 'data' handlers
C27_Progression ==
    /\ [][LoginStep]_vars
    /\ [](Written(Username) <= 1 /\ Written(Password) <= 1)

\* the auto-login went through all its steps and wrote both commands, the
\* password before the handler of the first chunk had ended
C27_Witness ==
    /\ loginState = "logged_in"
    /\ Written(Username) = 1
    /\ Written(Password) = 1
    /\ Len(handlers) = 3
    /\ handlers[1].pc = "log"

\* the session's connection in activeConnections was closed by the MUD: its
\* 'close' handler ran and disconnectMud has not been called since
ClosedByMud ==
    /\ activeConnections # 0
    /\ connections[activeConnections].socket = "closed"
    /\ connections[activeConnections].state = "disconnected"
    /\ \A d \in 1..Len(requests) :
           d > connections[activeConnections].closedAfter
               => requests[d].op # "disconnect"

\* C28: after the MUD closed the socket of the session's connection, a later
\* connectMudForUser with no disconnectMud in between creates a new connection
\* and does not fail with 'User already has an active MUD connection'
C28_Claim ==
    [][\A r \in 1..Len(requests) :
          (/\ ClosedByMud
           /\ r > connections[activeConnections].closedAfter
           /\ requests[r].pc = "getSession")
              => ~(requests'[r].pc = "failed" /\ requests'[r].error = AlreadyActive)]_vars

\* the response types that name a test of classifySystemResponse
NamedResponseTypes ==
    {"syntax_error", "unknown_command", "help_not_found", "setting_changed"}

\* C29: no event returned by parseMessage is a system_response with
\* response_type "general"; every system_response carries one of syntax_error,
\* unknown_command, help_not_found, setting_changed
C29_NoGeneral ==
    \A p \in Parsers :
        \A i \in 1..Len(returned[p]) :
            returned[p][i].event_type = "system_response"
                => /\ returned[p][i].data.response_type # "general"
                   /\ returned[p][i].data.response_type \in NamedResponseTypes

\* a system_response came back for a content that passes the last test only
C29_Witness ==
    /\ Returned(1, "system_response")
    /\ ~StartsWith(Cleaned(1), "Syntax:")
    /\ Trim(Cleaned(1)) # "What?"
    /\ ~Includes(Cleaned(1), "Sorry, no such help topic")
    /\ EventData(1).response_type = "setting_changed"

\* the lastEventType of a context: a list, empty while it is undefined
LastEventTypeOf(ctx) ==
    IF "lastEventType" \in DOMAIN ctx THEN <<ctx.lastEventType>> ELSE <<>>

\* C30: a parseMessage call whose cleaned content is empty after trimming leaves
\* lastEventType and roomContext as they were before the call
C30_EmptyFrame ==
    [][(calls'[1] # calls[1]
            /\ Trim(cleanContent(calls'[1][Len(calls'[1])].content)) = "")
          => /\ returned'[1] = <<>>
             /\ LastEventTypeOf(context'[1]) = LastEventTypeOf(context[1])
             /\ RoomContextOf(context'[1]) = RoomContextOf(context[1])]_vars

\* an empty content parsed after a room: lastEventType still names the room
\* description, the last event produced
C30_Witness ==
    /\ Len(calls[1]) = 2
    /\ calls[1][1] \in PriorUnits
    /\ Trim(Cleaned(1)) = ""
    /\ returned[1] = <<>>
    /\ LastEventTypeOf(context[1]) = <<"room_description">>
    /\ RoomContextOf(context[1]) =
           <<createRoomDescriptionEvent(7, calls[1][1].content, "t0").data>>

====
